---------------------------- MODULE Spec2Model ----------------------------
(* A model of the beer-ratings analysis pipeline of src/analysis:          *)
(* clean_data.py (clean_ratings), compute_statistics.py and                *)
(* judge_profiles.py.  A table is a record of its ordered column names and *)
(* its rows; a row keeps its pandas index label and one cell per column.   *)
(* Floating-point results are modelled exactly, as rationals or NaN.       *)
EXTENDS Integers, Sequences, FiniteSets, TLC

VARIABLES df, cleaned_df, dropped_rows, pc, result, judge_col, beer_col

vars == <<df, cleaned_df, dropped_rows, pc, result, judge_col, beer_col>>

---------------------------------------------------------------------------
(* Cell values: a number, a string, or NaN/None (pandas' missing value).   *)

NaN == [t |-> "nan", n |-> 0, s |-> ""]

Num(k) == [t |-> "num", n |-> k, s |-> ""]

Str(x) == [t |-> "str", n |-> 0, s |-> x]

\* Python's None: "no such column", "no result".
None == "None"

IsNull(c) == c.t = "nan"

\* pandas' == on cells: NaN equals nothing, not even NaN.
CellEq(a, b) == ~IsNull(a) /\ ~IsNull(b) /\ a = b

---------------------------------------------------------------------------
(* Column names, spelled out so that the keyword tests are the substring   *)
(* tests of the code.                                                      *)

Spell(name) ==
    CASE name = "Judge"       -> <<"J","u","d","g","e">>
      [] name = "Reviewer"    -> <<"R","e","v","i","e","w","e","r">>
      [] name = "Beer"        -> <<"B","e","e","r">>
      [] name = "Judge Name"  -> <<"J","u","d","g","e"," ","N","a","m","e">>
      [] name = "Beer Score"  -> <<"B","e","e","r"," ","S","c","o","r","e">>
      [] name = "Aroma (1-5)" -> <<"A","r","o","m","a"," ","(","1","-","5",")">>
      [] name = "FLAVOR"      -> <<"F","L","A","V","O","R">>
      [] name = "Notes"       -> <<"N","o","t","e","s">>

UpperCase == <<"A","B","C","D","E","F","G","H","I","J","K","L","M",
               "N","O","P","Q","R","S","T","U","V","W","X","Y","Z">>

LowerCase == <<"a","b","c","d","e","f","g","h","i","j","k","l","m",
               "n","o","p","q","r","s","t","u","v","w","x","y","z">>

\* str.lower(), one character at a time.
LowerChar(c) ==
    IF \E i \in 1..Len(UpperCase) : UpperCase[i] = c
    THEN LowerCase[CHOOSE i \in 1..Len(UpperCase) : UpperCase[i] = c]
    ELSE c

Lower(w) == [i \in 1..Len(w) |-> LowerChar(w[i])]

\* Python's `needle in hay` on strings.
Contains(hay, needle) ==
    \E i \in 0..(Len(hay) - Len(needle)) :
        \A k \in 1..Len(needle) : hay[i + k] = needle[k]

KwRating == <<"r","a","t","i","n","g">>
KwScore == <<"s","c","o","r","e">>
KwOneToFive == <<"(","1","-","5",")">>
KwWords == { <<"a","r","o","m","a">>, <<"f","l","a","v","o","r">>,
             <<"s","i","p">>, <<"m","o","u","t","h","f","e","e","l">>,
             <<"a","f","t","e","r","t","a","s","t","e">> }
KwJudge == <<"j","u","d","g","e">>
KwReviewer == <<"r","e","v","i","e","w","e","r">>
KwBeer == <<"b","e","e","r">>
KwName == <<"n","a","m","e">>

\* The rating-column test, the same expression in every function.
IsRatingName(col) ==
    \/ Contains(Lower(Spell(col)), KwRating)
    \/ Contains(Lower(Spell(col)), KwScore)
    \/ Contains(Spell(col), KwOneToFive)
    \/ \E word \in KwWords : Contains(Lower(Spell(col)), word)

IsJudgeName(col) ==
    \/ Contains(Lower(Spell(col)), KwJudge)
    \/ Contains(Lower(Spell(col)), KwReviewer)

IsBeerName(col) ==
    \/ Contains(Lower(Spell(col)), KwBeer)
    \/ Contains(Lower(Spell(col)), KwName)

\* The identifier test of clean_ratings.
IsIdentifierName(col) == IsJudgeName(col) \/ IsBeerName(col)

ColumnNames ==
    {"Judge", "Reviewer", "Beer", "Judge Name", "Beer Score",
     "Aroma (1-5)", "FLAVOR", "Notes"}

\* The classification of each name, computed once.
RatingNames == {c \in ColumnNames : IsRatingName(c)}
JudgeNames == {c \in ColumnNames : IsJudgeName(c)}
BeerNames == {c \in ColumnNames : IsBeerName(c)}

IsRating(col) == col \in RatingNames
IsJudge(col) == col \in JudgeNames
IsBeer(col) == col \in BeerNames
IsIdentifier(col) == IsJudge(col) \/ IsBeer(col)

---------------------------------------------------------------------------
(* Tables.                                                                 *)

ColIndex(columns, col) == CHOOSE i \in 1..Len(columns) : columns[i] = col

\* row[col]
Cell(t, row, col) == row.cells[ColIndex(t.columns, col)]

\* [col for col in df.columns if <rating test>]
rating_columns(t) == SelectSeq(t.columns, IsRating)

\* clean_ratings' identifier_columns
identifier_columns(t) == SelectSeq(t.columns, IsIdentifier)

SeqToSet(s) == {s[i] : i \in 1..Len(s)}

\* A dropna that drops a row only when all of cols are missing (how='all').
dropna_all_missing(t, cols) ==
    LET keep(row) ==
            cols = <<>> \/ \E col \in SeqToSet(cols) : ~IsNull(Cell(t, row, col))
    IN  [t EXCEPT !.rows = SelectSeq(t.rows, keep)]

\* df.dropna(subset=cols): rows with a missing value in any of cols go,
\* the others keep their order and their index labels.
dropna(t, cols) ==
    LET keep(row) == \A col \in SeqToSet(cols) : ~IsNull(Cell(t, row, col))
    IN  [t EXCEPT !.rows = SelectSeq(t.rows, keep)]

NumericStrings == <<"0","1","2","3","4","5","6","7","8","9">>

\* pd.to_numeric(cell, errors='coerce'): a number stays, a string that
\* spells a number becomes it, anything else becomes NaN.
to_numeric(c) ==
    IF c.t = "num" THEN c
    ELSE IF c.t = "str" /\ \E k \in 1..Len(NumericStrings) : NumericStrings[k] = c.s
    THEN Num((CHOOSE k \in 1..Len(NumericStrings) : NumericStrings[k] = c.s) - 1)
    ELSE NaN

\* A coercion that converts every column, not only the rating columns.
coerce_every_column(t) ==
    [t EXCEPT !.rows =
        [i \in 1..Len(t.rows) |->
            [t.rows[i] EXCEPT !.cells =
                [j \in 1..Len(t.columns) |-> to_numeric(t.rows[i].cells[j])]]]]

\* cleaned_df[col] = pd.to_numeric(cleaned_df[col], errors='coerce'),
\* for every rating column.
coerce_ratings(t) ==
    [t EXCEPT !.rows =
        [i \in 1..Len(t.rows) |->
            [t.rows[i] EXCEPT !.cells =
                [j \in 1..Len(t.columns) |->
                    IF IsRating(t.columns[j])
                    THEN to_numeric(t.rows[i].cells[j])
                    ELSE t.rows[i].cells[j]]]]]

\* A subset that names the rating columns only.
essential_columns_ratings_only(t) == rating_columns(t)

essential_columns(t) == rating_columns(t) \o identifier_columns(t)

\* A clean_ratings that coerces first and drops the missing values after.
clean_ratings_coerce_first(t) ==
    dropna(coerce_ratings(t), essential_columns(t))

\* clean_ratings(df): the cleaned table.
clean_ratings(t) == coerce_ratings(dropna(t, essential_columns(t)))

---------------------------------------------------------------------------
(* Floating-point results, exactly: NaN, or the rational n/d with d > 0.   *)
(* A standard deviation is kept as the float whose square root it is.      *)

RECURSIVE GCD(_, _)
GCD(a, b) == IF b = 0 THEN a ELSE GCD(b, a % b)

Abs(a) == IF a < 0 THEN -a ELSE a

FNaN == [nan |-> TRUE, n |-> 0, d |-> 1]

\* n/d in lowest terms.
Flt(n, d) ==
    LET g == GCD(Abs(n), d)
    IN  [nan |-> FALSE, n |-> n \div g, d |-> d \div g]

\* IEEE comparisons: every comparison with NaN is false.
FLt(a, b) == ~a.nan /\ ~b.nan /\ a.n * b.d < b.n * a.d
FGt(a, b) == FLt(b, a)
FLe(a, b) == ~a.nan /\ ~b.nan /\ a.n * b.d <= b.n * a.d
FGe(a, b) == FLe(b, a)

FAdd(a, b) ==
    IF a.nan \/ b.nan THEN FNaN ELSE Flt(a.n * b.d + b.n * a.d, a.d * b.d)

FSub(a, b) ==
    IF a.nan \/ b.nan THEN FNaN ELSE Flt(a.n * b.d - b.n * a.d, a.d * b.d)

FMul(a, b) ==
    IF a.nan \/ b.nan THEN FNaN ELSE Flt(a.n * b.n, a.d * b.d)

RECURSIVE SumSeq(_)
SumSeq(xs) == IF xs = <<>> THEN 0 ELSE Head(xs) + SumSeq(Tail(xs))

RECURSIVE SumSquares(_)
SumSquares(xs) ==
    IF xs = <<>> THEN 0 ELSE Head(xs) * Head(xs) + SumSquares(Tail(xs))

\* max() and min() of a non-empty list of numbers.
MaxOf(xs) == CHOOSE x \in SeqToSet(xs) : \A y \in SeqToSet(xs) : y <= x
MinOf(xs) == CHOOSE x \in SeqToSet(xs) : \A y \in SeqToSet(xs) : x <= y

\* np.mean: NaN (and a warning) on an empty array.
np_mean(xs) == IF xs = <<>> THEN FNaN ELSE Flt(SumSeq(xs), Len(xs))

\* np.std (ddof = 0), as the variance it is the square root of.
np_std(xs) ==
    IF xs = <<>> THEN FNaN
    ELSE Flt(Len(xs) * SumSquares(xs) - SumSeq(xs) * SumSeq(xs),
             Len(xs) * Len(xs))

\* The mean of a list of floats (np.mean of a list of per-judge means).
RECURSIVE FSum(_)
FSum(fs) == IF fs = <<>> THEN Flt(0, 1) ELSE FAdd(Head(fs), FSum(Tail(fs)))

f_mean(fs) ==
    IF fs = <<>> \/ FSum(fs).nan THEN FNaN
    ELSE Flt(FSum(fs).n, FSum(fs).d * Len(fs))

---------------------------------------------------------------------------
(* Column selection and row selection shared by the analysis functions.    *)

\* for col in df.columns: if <test>: x = col; break
\* (matching: the names that pass the test)
FirstMatch(columns, matching) ==
    IF \E i \in 1..Len(columns) : columns[i] \in matching
    THEN columns[CHOOSE i \in 1..Len(columns) :
                    /\ columns[i] \in matching
                    /\ \A k \in 1..(i - 1) : columns[k] \notin matching]
    ELSE None

\* for col in df.columns: if <test>: x = col      (no break: the last wins)
LastMatch(columns, matching) ==
    IF \E i \in 1..Len(columns) : columns[i] \in matching
    THEN columns[CHOOSE i \in 1..Len(columns) :
                    /\ columns[i] \in matching
                    /\ \A k \in (i + 1)..Len(columns) : columns[k] \notin matching]
    ELSE None

\* Series.unique(): the values in order of first appearance, NaN once.
RECURSIVE Unique(_)
Unique(cs) ==
    IF cs = <<>> THEN <<>>
    ELSE LET front == Unique(SubSeq(cs, 1, Len(cs) - 1))
             last == cs[Len(cs)]
         IN  IF last \in SeqToSet(front) THEN front ELSE Append(front, last)

\* df[col], as the sequence of its cells.
Column(t, col) == [i \in 1..Len(t.rows) |-> Cell(t, t.rows[i], col)]

\* df[df[col] == value].rows
RowsWhere(t, col, value) ==
    LET hit(row) == CellEq(Cell(t, row, col), value)
    IN  SelectSeq(t.rows, hit)

\* The non-null values of the rating columns of one row, in column order.
RECURSIVE RowRatings(_, _, _)
RowRatings(t, row, cols) ==
    IF cols = <<>> THEN <<>>
    ELSE LET c == Cell(t, row, Head(cols))
         IN  (IF IsNull(c) THEN <<>> ELSE <<c.n>>)
             \o RowRatings(t, row, Tail(cols))

\* rows[rating_columns].values.flatten() with the NaN values removed.
RECURSIVE FlatRatings(_, _)
FlatRatings(t, rows) ==
    IF rows = <<>> THEN <<>>
    ELSE RowRatings(t, Head(rows), rating_columns(t))
         \o FlatRatings(t, Tail(rows))

Returned(v) == [kind |-> "return", value |-> v]

\* `return None`: the explicit absent value.
ReturnedNone == [kind |-> "none", value |-> None]

\* An exception leaves the function.
Raised == [kind |-> "raise", value |-> None]

---------------------------------------------------------------------------
(* compute_statistics.py                                                   *)

first_judge_col(t) == FirstMatch(t.columns, JudgeNames)

first_beer_col(t) == FirstMatch(t.columns, BeerNames)

\* The statistics of one judge; np.max raises on an empty array.
judge_entry(t, col, judge) ==
    LET xs == FlatRatings(t, RowsWhere(t, col, judge))
    IN  [judge |-> judge,
         mean_rating |-> np_mean(xs),
         std_rating |-> np_std(xs),
         rating_range |-> MaxOf(xs) - MinOf(xs),
         num_ratings |-> Len(xs)]

compute_judge_statistics(t) ==
    IF first_judge_col(t) = None THEN ReturnedNone
    ELSE LET col == first_judge_col(t)
             judges == Unique(Column(t, col))
         IN  IF \E i \in 1..Len(judges) :
                    FlatRatings(t, RowsWhere(t, col, judges[i])) = <<>>
             THEN Raised
             ELSE Returned([i \in 1..Len(judges) |->
                               judge_entry(t, col, judges[i])])

\* list.sort(key=...) / sorted(...): a stable sort; before[i, j] says that
\* the key of xs[i] sorts strictly before the key of xs[j].
StableSort(xs, before) ==
    LET rank(i) ==
            1 + Cardinality({j \in 1..Len(xs) :
                                \/ before[j, i]
                                \/ (~before[i, j] /\ j < i)})
    IN  [p \in 1..Len(xs) |-> xs[CHOOSE i \in 1..Len(xs) : rank(i) = p]]

\* Column values with the missing ones counted as zero (a fillna(0)).
ColumnValues_nulls_as_zero(t, rows, col) ==
    [i \in 1..Len(rows) |->
        IF IsNull(Cell(t, rows[i], col)) THEN 0 ELSE Cell(t, rows[i], col).n]

\* The non-null numbers of one column of some rows.
ColumnValues(t, rows, col) ==
    LET present(row) == ~IsNull(Cell(t, row, col))
        kept == SelectSeq(rows, present)
    IN  [i \in 1..Len(kept) |-> Cell(t, kept[i], col).n]

\* Series.mean(), .min(), .max(): missing values skipped, NaN when none is left.
series_mean(xs) == np_mean(xs)
series_min(xs) == IF xs = <<>> THEN FNaN ELSE Flt(MinOf(xs), 1)
series_max(xs) == IF xs = <<>> THEN FNaN ELSE Flt(MaxOf(xs), 1)

\* Series.median()
series_median(xs) ==
    LET sorted == StableSort(xs, [i, j \in 1..Len(xs) |-> xs[i] < xs[j]])
        n == Len(xs)
    IN  IF n = 0 THEN FNaN
        ELSE IF n % 2 = 1 THEN Flt(sorted[(n + 1) \div 2], 1)
        ELSE Flt(sorted[n \div 2] + sorted[(n \div 2) + 1], 2)

\* Series.std() (ddof = 1), as the variance it is the square root of.
series_std(xs) ==
    IF Len(xs) < 2 THEN FNaN
    ELSE Flt(Len(xs) * SumSquares(xs) - SumSeq(xs) * SumSeq(xs),
             Len(xs) * (Len(xs) - 1))

column_stats(t, col) ==
    LET xs == ColumnValues(t, t.rows, col)
    IN  [column |-> col,
         mean |-> series_mean(xs),
         median |-> series_median(xs),
         std |-> series_std(xs),
         min |-> series_min(xs),
         max |-> series_max(xs),
         count |-> Len(xs)]

compute_basic_statistics(t) ==
    IF rating_columns(t) = <<>> THEN ReturnedNone
    ELSE Returned([i \in 1..Len(rating_columns(t)) |->
                      column_stats(t, rating_columns(t)[i])])

\* The order of the strings used as identifiers (Python's str order).
StringOrder == <<"4", "B1", "B2", "B3", "J1", "J2", "J3", "x">>

StrRank(x) == CHOOSE i \in 1..Len(StringOrder) : StringOrder[i] = x

\* The order groupby sorts its keys in: numbers, then strings.
KeyLess(a, b) ==
    IF a.t = "num" /\ b.t = "num" THEN a.n < b.n
    ELSE IF a.t = "str" /\ b.t = "str" THEN StrRank(a.s) < StrRank(b.s)
    ELSE a.t = "num" /\ b.t = "str"

NotNull(c) == ~IsNull(c)

\* The group keys of df.groupby(col): the non-null values, sorted.
group_keys(t, col) ==
    LET keys == SelectSeq(Unique(Column(t, col)), NotNull)
    IN  StableSort(keys, [i, j \in 1..Len(keys) |-> KeyLess(keys[i], keys[j])])

beer_group(t, col, beer) ==
    LET rows == RowsWhere(t, col, beer)
        rc == rating_columns(t)
    IN  [beer |-> beer,
         columns |-> [i \in 1..Len(rc) |->
             [column |-> rc[i],
              mean |-> series_mean(ColumnValues(t, rows, rc[i])),
              std |-> series_std(ColumnValues(t, rows, rc[i])),
              count |-> Len(ColumnValues(t, rows, rc[i]))]]]

\* groupby(beer_col)[rating_columns].agg(['mean', 'std', 'count']); with no
\* rating column there is nothing to aggregate and pandas raises.
compute_beer_averages(t) ==
    IF first_beer_col(t) = None THEN ReturnedNone
    ELSE IF rating_columns(t) = <<>> THEN Raised
    ELSE LET keys == group_keys(t, first_beer_col(t))
         IN  Returned([i \in 1..Len(keys) |->
                          beer_group(t, first_beer_col(t), keys[i])])

IsNumber(f) == ~f.nan

\* beer_means.mean(axis=1): the mean of the per-column means that are not NaN.
overall_rating(group) ==
    f_mean(SelectSeq([i \in 1..Len(group.columns) |-> group.columns[i].mean],
                     IsNumber))

\* An idxmax that returns the label of the smallest value.
idxmax_smallest(series) ==
    CHOOSE i \in 1..Len(series) :
        /\ ~series[i].average_rating.nan
        /\ \A k \in 1..Len(series) :
              \/ series[k].average_rating.nan
              \/ FGe(series[k].average_rating, series[i].average_rating)

\* idxmax(): the first label, in index order, holding the largest value,
\* NaN skipped.
idxmax(series) ==
    CHOOSE i \in 1..Len(series) :
        /\ ~series[i].average_rating.nan
        /\ \A k \in 1..Len(series) :
              \/ series[k].average_rating.nan
              \/ FLe(series[k].average_rating, series[i].average_rating)
        /\ \A k \in 1..(i - 1) :
              ~FGe(series[k].average_rating, series[i].average_rating)

idxmin(series) ==
    CHOOSE i \in 1..Len(series) :
        /\ ~series[i].average_rating.nan
        /\ \A k \in 1..Len(series) :
              \/ series[k].average_rating.nan
              \/ FGe(series[k].average_rating, series[i].average_rating)
        /\ \A k \in 1..(i - 1) :
              ~FLe(series[k].average_rating, series[i].average_rating)

IndexPermutations(n) ==
    {p \in [1..n -> 1..n] : \A i, j \in 1..n : i # j => p[i] # p[j]}

\* sort_values(ascending=False): descending, NaN last.  The default kind is
\* quicksort, which is not stable: equal values come in any order.
sort_values_descending(series) ==
    LET ordered(p) ==
            \A i \in 1..(Len(series) - 1) :
                \/ series[p[i + 1]].average_rating.nan
                \/ FGe(series[p[i]].average_rating,
                       series[p[i + 1]].average_rating)
    IN  {[i \in 1..Len(series) |-> series[p[i]]] :
             p \in {q \in IndexPermutations(Len(series)) : ordered(q)}}

\* The Series overall_ratings, in index order.
overall_ratings(groups) ==
    [i \in 1..Len(groups) |->
        [name |-> groups[i].beer, average_rating |-> overall_rating(groups[i])]]

\* The outcomes of find_best_worst_beers(df); idxmax raises when no beer has
\* a rating (an empty or all-NaN Series).
find_best_worst_beers(t) ==
    LET ba == compute_beer_averages(t)
    IN  IF ba.kind = "raise" THEN {Raised}
        ELSE IF ba.kind = "none" THEN {ReturnedNone}
        ELSE LET series == overall_ratings(ba.value)
             IN  IF \A i \in 1..Len(series) : series[i].average_rating.nan
                 THEN {Raised}
                 ELSE {Returned([best_beer |-> series[idxmax(series)],
                                 worst_beer |-> series[idxmin(series)],
                                 all_averages |-> sorted]) :
                          sorted \in sort_values_descending(series)}

---------------------------------------------------------------------------
(* judge_profiles.py                                                       *)

\* An entry that counts the judge's rows, not the judge's rating values.
consistency_entry_counting_rows(t, col, judge) ==
    LET all_ratings == FlatRatings(t, RowsWhere(t, col, judge))
    IN  [judge |-> judge,
         std_dev |-> np_std(all_ratings),
         num_ratings |-> Len(RowsWhere(t, col, judge)),
         avg_rating |-> np_mean(all_ratings),
         rating_range |-> MaxOf(all_ratings) - MinOf(all_ratings)]

consistency_entry(t, col, judge) ==
    LET all_ratings == FlatRatings(t, RowsWhere(t, col, judge))
    IN  [judge |-> judge,
         std_dev |-> np_std(all_ratings),
         num_ratings |-> Len(all_ratings),
         avg_rating |-> np_mean(all_ratings),
         rating_range |-> MaxOf(all_ratings) - MinOf(all_ratings)]

analyze_judge_consistency(t) ==
    IF first_judge_col(t) = None \/ rating_columns(t) = <<>>
    THEN ReturnedNone
    ELSE LET col == first_judge_col(t)
             judges == Unique(Column(t, col))
             enough(judge) == Len(FlatRatings(t, RowsWhere(t, col, judge))) > 1
             listed == SelectSeq(judges, enough)
         IN  Returned([i \in 1..Len(listed) |->
                          consistency_entry(t, col, listed[i])])

\* The fixed threshold of identify_harsh_lenient_judges: 0.5.
Threshold == Flt(1, 2)

\* harsh_judges.sort(key=lambda x: x[1])
sort_ascending(judges) ==
    StableSort(judges, [i, j \in 1..Len(judges) |->
                           FLt(judges[i].mean_rating, judges[j].mean_rating)])

\* lenient_judges.sort(key=lambda x: x[1], reverse=True)
sort_descending(judges) ==
    StableSort(judges, [i, j \in 1..Len(judges) |->
                           FGt(judges[i].mean_rating, judges[j].mean_rating)])

\* A harsh test that takes in the band's edge: <= instead of <.
is_harsh_inclusive(stats, overall_average) ==
    FLe(stats.mean_rating, FSub(overall_average, Threshold))

\* stats['mean_rating'] < overall_average - 0.5
is_harsh(stats, overall_average) ==
    FLt(stats.mean_rating, FSub(overall_average, Threshold))

\* stats['mean_rating'] > overall_average + 0.5, in the elif branch
is_lenient(stats, overall_average) ==
    /\ ~is_harsh(stats, overall_average)
    /\ FGt(stats.mean_rating, FAdd(overall_average, Threshold))

JudgeMean(stats) == [judge |-> stats.judge, mean_rating |-> stats.mean_rating]

harsh_lenient(judge_stats) ==
    LET overall_average ==
            f_mean([i \in 1..Len(judge_stats) |-> judge_stats[i].mean_rating])
        harsh(stats) == is_harsh(stats, overall_average)
        lenient(stats) == is_lenient(stats, overall_average)
        harsh_judges == SelectSeq(judge_stats, harsh)
        lenient_judges == SelectSeq(judge_stats, lenient)
    IN  [overall_average |-> overall_average,
         harsh_judges |->
             sort_ascending([i \in 1..Len(harsh_judges) |->
                                JudgeMean(harsh_judges[i])]),
         lenient_judges |->
             sort_descending([i \in 1..Len(lenient_judges) |->
                                 JudgeMean(lenient_judges[i])])]

identify_harsh_lenient_judges(t) ==
    LET js == compute_judge_statistics(t)
    IN  IF js.kind = "raise" THEN Raised
        ELSE IF js.kind = "none" THEN ReturnedNone
        ELSE Returned(harsh_lenient(js.value))

\* The column loop of analyze_judge_preferences and of
\* find_judge_agreements_disagreements: no break, and the beer test is the
\* elif of the judge test.
loop_judge_col(t) == LastMatch(t.columns, JudgeNames)

loop_beer_col(t) == LastMatch(t.columns, BeerNames \ JudgeNames)

\* beer_ratings[beer] = value: a new key goes last, a known key keeps its
\* place; a NaN key equals no key.
DictSet(dict, key, value) ==
    IF \E i \in 1..Len(dict) : CellEq(dict[i].beer, key)
    THEN [i \in 1..Len(dict) |->
             IF CellEq(dict[i].beer, key)
             THEN [beer |-> key, rating |-> value] ELSE dict[i]]
    ELSE Append(dict, [beer |-> key, rating |-> value])

\* The loop over judge_data.iterrows() of analyze_judge_preferences.
RECURSIVE beer_ratings(_, _, _)
beer_ratings(t, bcol, rows) ==
    IF rows = <<>> THEN <<>>
    ELSE LET before == beer_ratings(t, bcol, SubSeq(rows, 1, Len(rows) - 1))
             row == rows[Len(rows)]
             ratings == RowRatings(t, row, rating_columns(t))
         IN  IF ratings # <<>>
             THEN DictSet(before, Cell(t, row, bcol), np_mean(ratings))
             ELSE before

\* sorted(beer_ratings.items(), key=lambda x: x[1], reverse=True)
sorted_by_rating(items) ==
    StableSort(items, [i, j \in 1..Len(items) |->
                          FGt(items[i].rating, items[j].rating)])

preference_entry(t, jcol, bcol, judge) ==
    LET sorted_beers ==
            sorted_by_rating(beer_ratings(t, bcol, RowsWhere(t, jcol, judge)))
    IN  [judge |-> judge,
         favorite_beer |-> sorted_beers[1],
         least_favorite_beer |-> sorted_beers[Len(sorted_beers)],
         all_ratings |-> sorted_beers]

analyze_judge_preferences(t) ==
    IF loop_judge_col(t) = None \/ loop_beer_col(t) = None
       \/ rating_columns(t) = <<>>
    THEN ReturnedNone
    ELSE LET jcol == loop_judge_col(t)
             bcol == loop_beer_col(t)
             judges == Unique(Column(t, jcol))
             rated(judge) ==
                 beer_ratings(t, bcol, RowsWhere(t, jcol, judge)) # <<>>
             listed == SelectSeq(judges, rated)
         IN  Returned([i \in 1..Len(listed) |->
                          preference_entry(t, jcol, bcol, listed[i])])

\* The beers of the rows of one judge; a NaN is in no intersection.
beers_of(t, jcol, bcol, judge) ==
    {Cell(t, row, bcol) : row \in SeqToSet(RowsWhere(t, jcol, judge))}

common_beers(t, jcol, bcol, judge1, judge2) ==
    {b \in beers_of(t, jcol, bcol, judge1) \cap beers_of(t, jcol, bcol, judge2) :
        ~IsNull(b)}

RECURSIVE SetToSeq(_)
SetToSeq(S) ==
    IF S = {} THEN <<>>
    ELSE LET x == CHOOSE y \in S : TRUE IN <<x>> \o SetToSeq(S \ {x})

\* One judge's non-null ratings of one beer.
ratings_for(t, jcol, bcol, judge, beer) ==
    LET of_beer(row) == CellEq(Cell(t, row, bcol), beer)
    IN  FlatRatings(t, SelectSeq(RowsWhere(t, jcol, judge), of_beer))

\* The list `correlations`: one (avg1, avg2) per common beer both rated.
data_points(t, jcol, bcol, judge1, judge2) ==
    LET beers == SetToSeq(common_beers(t, jcol, bcol, judge1, judge2))
        both(beer) ==
            /\ ratings_for(t, jcol, bcol, judge1, beer) # <<>>
            /\ ratings_for(t, jcol, bcol, judge2, beer) # <<>>
        used == SelectSeq(beers, both)
    IN  [i \in 1..Len(used) |->
            [avg1 |-> np_mean(ratings_for(t, jcol, bcol, judge1, used[i])),
             avg2 |-> np_mean(ratings_for(t, jcol, bcol, judge2, used[i]))]]

FDiv(a, b) == Flt(a.n * b.d, a.d * b.n)

CorrNaN == [nan |-> TRUE, sign |-> 0, sq |-> FNaN]

\* np.corrcoef(x, y)[0, 1]: cov / sqrt(var_x * var_y), clipped to [-1, 1];
\* kept as its sign and its square.  A zero variance gives 0/0 = NaN.
corrcoef(points) ==
    LET n == Flt(Len(points), 1)
        xs == [i \in 1..Len(points) |-> points[i].avg1]
        ys == [i \in 1..Len(points) |-> points[i].avg2]
        xx == [i \in 1..Len(points) |-> FMul(xs[i], xs[i])]
        yy == [i \in 1..Len(points) |-> FMul(ys[i], ys[i])]
        xy == [i \in 1..Len(points) |-> FMul(xs[i], ys[i])]
        cxx == FSub(FMul(n, FSum(xx)), FMul(FSum(xs), FSum(xs)))
        cyy == FSub(FMul(n, FSum(yy)), FMul(FSum(ys), FSum(ys)))
        cxy == FSub(FMul(n, FSum(xy)), FMul(FSum(xs), FSum(ys)))
        sq == FDiv(FMul(cxy, cxy), FMul(cxx, cyy))
    IN  IF cxx.n = 0 \/ cyy.n = 0 THEN CorrNaN
        ELSE [nan |-> FALSE,
              sign |-> IF cxy.n > 0 THEN 1 ELSE IF cxy.n < 0 THEN -1 ELSE 0,
              sq |-> IF FGt(sq, Flt(1, 1)) THEN Flt(1, 1) ELSE sq]

\* correlation > p/q, for a positive p/q.
CorrGt(c, p, q) == ~c.nan /\ c.sign = 1 /\ FGt(c.sq, Flt(p * p, q * q))

agreement_level(c) ==
    IF CorrGt(c, 7, 10) THEN "High"
    ELSE IF CorrGt(c, 3, 10) THEN "Medium"
    ELSE "Low"

agreement_entry(t, jcol, bcol, judge1, judge2) ==
    LET correlation == corrcoef(data_points(t, jcol, bcol, judge1, judge2))
    IN  [judge1 |-> judge1,
         judge2 |-> judge2,
         correlation |-> correlation,
         common_beers |-> Cardinality(common_beers(t, jcol, bcol, judge1, judge2)),
         agreement_level |-> agreement_level(correlation)]

\* for i, judge1 in enumerate(judges): for judge2 in judges[i+1:]
judge_pairs(judges) ==
    LET n == Len(judges)
        all == [k \in 1..(n * n) |-> <<((k - 1) \div n) + 1, ((k - 1) % n) + 1>>]
        upper(p) == p[1] < p[2]
        kept == SelectSeq(all, upper)
    IN  [k \in 1..Len(kept) |-> <<judges[kept[k][1]], judges[kept[k][2]]>>]

\* A test that lets a single data point through: len(correlations) > 0.
pair_reported_one_point(t, jcol, bcol, judge1, judge2) ==
    /\ common_beers(t, jcol, bcol, judge1, judge2) # {}
    /\ Len(data_points(t, jcol, bcol, judge1, judge2)) > 0

\* len(common_beers) > 0 and len(correlations) > 1
pair_reported(t, jcol, bcol, judge1, judge2) ==
    /\ common_beers(t, jcol, bcol, judge1, judge2) # {}
    /\ Len(data_points(t, jcol, bcol, judge1, judge2)) > 1

find_judge_agreements_disagreements(t) ==
    IF loop_judge_col(t) = None \/ loop_beer_col(t) = None
       \/ rating_columns(t) = <<>>
    THEN ReturnedNone
    ELSE LET jcol == loop_judge_col(t)
             bcol == loop_beer_col(t)
             reported(p) == pair_reported(t, jcol, bcol, p[1], p[2])
             pairs == SelectSeq(judge_pairs(Unique(Column(t, jcol))), reported)
         IN  Returned([k \in 1..Len(pairs) |->
                          agreement_entry(t, jcol, bcol, pairs[k][1], pairs[k][2])])

\* judge in [j[0] for j in judges]
Listed(judge, judges) == \E i \in 1..Len(judges) : judges[i].judge = judge

rating_style_swapped(judge, hl) ==
    IF Listed(judge, hl.lenient_judges) THEN "Harsh"
    ELSE IF Listed(judge, hl.harsh_judges) THEN "Lenient"
    ELSE "Moderate"

rating_style(judge, hl) ==
    IF Listed(judge, hl.harsh_judges) THEN "Harsh"
    ELSE IF Listed(judge, hl.lenient_judges) THEN "Lenient"
    ELSE "Moderate"

\* preferences[judge], when `preferences and judge in preferences`.
preferences_of(judge, preferences) ==
    IF preferences.kind = "return" /\ Listed(judge, preferences.value)
    THEN preferences.value[CHOOSE i \in 1..Len(preferences.value) :
                               preferences.value[i].judge = judge]
    ELSE None

profile(stats, hl, preferences) ==
    [judge |-> stats.judge,
     consistency |-> stats,
     avg_rating |-> stats.avg_rating,
     rating_style |-> rating_style(stats.judge, hl),
     preferences |-> preferences_of(stats.judge, preferences)]

\* harsh_lenient.get(...) on None is an AttributeError.
generate_judge_profiles(t) ==
    LET consistency == analyze_judge_consistency(t)
        hl == identify_harsh_lenient_judges(t)
        preferences == analyze_judge_preferences(t)
    IN  IF hl.kind = "raise" THEN Raised
        ELSE IF consistency.kind = "none" \/ consistency.value = <<>>
        THEN Returned(<<>>)
        ELSE IF hl.kind = "none" THEN Raised
        ELSE Returned([i \in 1..Len(consistency.value) |->
                          profile(consistency.value[i], hl.value, preferences)])

---------------------------------------------------------------------------
(* The raw tables the analysis is run on.                                  *)

\* A table as pd.read_csv gives it: the index labels are 0, 1, 2, ...
MakeTable(columns, cellrows) ==
    [columns |-> columns,
     rows |-> [i \in 1..Len(cellrows) |-> [idx |-> i - 1, cells |-> cellrows[i]]]]

SeqsUpTo(S, n) == UNION {[1..k -> S] : k \in 0..n}

\* The rows xs[i] \o ys[j], in the order of (i, j).
Cross(xs, ys) ==
    [k \in 1..(Len(xs) * Len(ys)) |->
        xs[((k - 1) \div Len(ys)) + 1] \o ys[((k - 1) % Len(ys)) + 1]]

Singles(xs) == [i \in 1..Len(xs) |-> <<xs[i]>>]

\* Tables of up to n rows, drawn from choices in any order.
FreeTables(columns, choices, n) ==
    {MakeTable(columns, rows) : rows \in SeqsUpTo(SeqToSet(choices), n)}

\* Tables of exactly n rows, drawn from choices in the order of choices
\* (every multiset of n rows, once).
RECURSIVE Ascending(_, _, _)
\* The non-decreasing sequences of n numbers of lo..hi.
Ascending(n, lo, hi) ==
    IF n = 0 THEN {<<>>}
    ELSE UNION {{<<k>> \o f : f \in Ascending(n - 1, k, hi)} : k \in lo..hi}

OrderedTables(columns, choices, n) ==
    {MakeTable(columns, [i \in 1..n |-> choices[f[i]]]) :
        f \in Ascending(n, 1, Len(choices))}

\* Rows in any order up to MaxRows, and one row more in a fixed order.
MaxRows == 3

\* Two judges and two beers, one rating column; "x" is text in a rating cell.
RatingsColumns == <<"Judge", "Beer", "Aroma (1-5)">>

RatingsRows ==
    Cross(Cross(Singles(<<Str("J1"), Str("J2")>>),
                Singles(<<Str("B1"), Str("B2")>>)),
          Singles(<<Num(1), Num(3), Str("x")>>))

\* Three judges of one beer, one rating column.
JudgesRows ==
    Cross(Cross(Singles(<<Str("J1"), Str("J2"), Str("J3")>>),
                Singles(<<Str("B1")>>)),
          Singles(<<Num(1), Num(2), Num(4), Num(5)>>))

\* One judge of three beers, two rating columns.
BeersColumns == <<"Judge", "Beer", "Aroma (1-5)", "FLAVOR">>

RatingPairs ==
    << <<Num(1), Num(1)>>, <<Num(5), Str("x")>>,
       <<Str("x"), Num(3)>>, <<Str("x"), Str("x")>> >>

BeersRows ==
    Cross(Cross(Singles(<<Str("J1")>>),
                Singles(<<Str("B1"), Str("B2"), Str("B3")>>)),
          RatingPairs)

\* Raw tables with missing cells: an identifier, a rating and a free column.
RawColumns == <<"Judge", "Aroma (1-5)", "Notes">>

RawRows ==
    Cross(Cross(Singles(<<Str("J1"), NaN>>),
                Singles(<<Num(3), Str("x"), NaN>>)),
          Singles(<<Str("x"), NaN>>))

\* One-row tables over every ordered choice of up to MaxCols column names.
MaxCols == 3

HeaderNames == {"Judge", "Beer", "Judge Name", "Beer Score", "Aroma (1-5)"}

HeaderCells == {NaN, Num(3), Str("4"), Str("x")}

Headers(n) ==
    {h \in SeqsUpTo(HeaderNames, n) :
        /\ h # <<>>
        /\ \A i, j \in 1..Len(h) : i # j => h[i] # h[j]}

HeaderTables(h) ==
    {MakeTable(h, <<cells>>) : cells \in [1..Len(h) -> HeaderCells]}

---------------------------------------------------------------------------
(* The pipeline: load, clean, then any one analysis function on the        *)
(* cleaned table.  Every function is a call of its own: none keeps state.  *)

Loaded(tables) ==
    /\ df \in tables
    /\ cleaned_df = None
    /\ dropped_rows = 0
    /\ pc = "loaded"
    /\ result = None
    /\ judge_col = None
    /\ beer_col = None

LoadedTables(columns, choices) ==
    \/ Loaded(FreeTables(columns, choices, MaxRows))
    \/ Loaded(OrderedTables(columns, choices, MaxRows + 1))

\* Two judges and two beers.
Init == LoadedTables(RatingsColumns, RatingsRows)

\* Three judges.
InitJudges == LoadedTables(RatingsColumns, JudgesRows)

\* Three beers, two rating columns.
InitBeers == LoadedTables(BeersColumns, BeersRows)

\* Missing cells, and every header of up to MaxCols columns.
InitClean ==
    \/ LoadedTables(RawColumns, RawRows)
    \/ \E h \in Headers(MaxCols) : Loaded(HeaderTables(h))

\* cleaned_df = clean_ratings(df)
CleanRatings ==
    /\ pc = "loaded"
    /\ cleaned_df' = clean_ratings(df)
    /\ dropped_rows' = Len(df.rows) - Len(dropna(df, essential_columns(df)).rows)
    /\ pc' = "cleaned"
    /\ UNCHANGED <<df, result, judge_col, beer_col>>

\* One call f(cleaned_df): its outcome and the identifier columns it chose.
Call(name, outcome, jcol, bcol) ==
    /\ pc = "cleaned"
    /\ pc' = name
    /\ result' = outcome
    /\ judge_col' = jcol
    /\ beer_col' = bcol
    /\ UNCHANGED <<df, cleaned_df, dropped_rows>>

ComputeBasicStatistics ==
    Call("compute_basic_statistics", compute_basic_statistics(cleaned_df),
         None, None)

ComputeBeerAverages ==
    Call("compute_beer_averages", compute_beer_averages(cleaned_df),
         None, first_beer_col(cleaned_df))

FindBestWorstBeers ==
    /\ pc = "cleaned"
    /\ \E outcome \in find_best_worst_beers(cleaned_df) :
        Call("find_best_worst_beers", outcome, None, first_beer_col(cleaned_df))

ComputeJudgeStatistics ==
    Call("compute_judge_statistics", compute_judge_statistics(cleaned_df),
         first_judge_col(cleaned_df), None)

AnalyzeJudgeConsistency ==
    Call("analyze_judge_consistency", analyze_judge_consistency(cleaned_df),
         first_judge_col(cleaned_df), None)

IdentifyHarshLenientJudges ==
    Call("identify_harsh_lenient_judges",
         identify_harsh_lenient_judges(cleaned_df),
         first_judge_col(cleaned_df), None)

AnalyzeJudgePreferences ==
    Call("analyze_judge_preferences", analyze_judge_preferences(cleaned_df),
         loop_judge_col(cleaned_df), loop_beer_col(cleaned_df))

FindJudgeAgreementsDisagreements ==
    Call("find_judge_agreements_disagreements",
         find_judge_agreements_disagreements(cleaned_df),
         loop_judge_col(cleaned_df), loop_beer_col(cleaned_df))

GenerateJudgeProfiles ==
    Call("generate_judge_profiles", generate_judge_profiles(cleaned_df),
         None, None)

Next ==
    \/ CleanRatings
    \/ ComputeBasicStatistics
    \/ ComputeBeerAverages
    \/ FindBestWorstBeers
    \/ ComputeJudgeStatistics
    \/ AnalyzeJudgeConsistency
    \/ IdentifyHarshLenientJudges
    \/ AnalyzeJudgePreferences
    \/ FindJudgeAgreementsDisagreements
    \/ GenerateJudgeProfiles

Spec == Init /\ [][Next]_vars

SpecJudges == InitJudges /\ [][Next]_vars

SpecBeers == InitBeers /\ [][Next]_vars

SpecClean == InitClean /\ [][Next]_vars

---------------------------------------------------------------------------
(* Properties of clean_ratings.                                            *)

Cleaned == pc # "loaded"

\* Essential, as the specification defines it: a rating keyword, or a judge
\* or beer keyword, in the column's name.
Essential(col) == IsRating(col) \/ IsJudge(col) \/ IsBeer(col)

\* The row has a value in every essential column.
Complete(t, row) ==
    \A j \in 1..Len(t.columns) :
        Essential(t.columns[j]) => ~IsNull(row.cells[j])

\* Text that spells no number.
NonNumeric(c) == c.t = "str" /\ c.s \notin SeqToSet(NumericStrings)

\* A complete row with non-numeric text in some rating column.
TextInRating(t, row) ==
    /\ Complete(t, row)
    /\ \E j \in 1..Len(t.columns) :
          IsRating(t.columns[j]) /\ NonNumeric(row.cells[j])

\* The row of the cleaned table is the raw row `row`, with its text rating
\* cells null.
KeptWithNulls(row, kept) ==
    /\ kept.idx = row.idx
    /\ \A j \in 1..Len(df.columns) :
          (IsRating(df.columns[j]) /\ NonNumeric(row.cells[j]))
              => IsNull(kept.cells[j])

\* C1: the drop-missing step runs before the numeric coercion: a raw row
\* whose essential cells are all present and which holds non-numeric text in
\* a rating column is in the cleaned table, that rating cell null; it is
\* never dropped.
C1_DropBeforeCoerce ==
    Cleaned =>
        \A i \in 1..Len(df.rows) :
            TextInRating(df, df.rows[i]) =>
                \E k \in 1..Len(cleaned_df.rows) :
                    KeptWithNulls(df.rows[i], cleaned_df.rows[k])

\* A cleaned table that kept a row with text in a rating cell and dropped
\* another row.
C1_Witness ==
    /\ pc = "cleaned"
    /\ dropped_rows > 0
    /\ \E i \in 1..Len(df.rows) :
          /\ TextInRating(df, df.rows[i])
          /\ \E k \in 1..Len(cleaned_df.rows) :
                KeptWithNulls(df.rows[i], cleaned_df.rows[k])

\* No cell is null and every cell of a rating column is a number.
AlreadyClean(t) ==
    \A i \in 1..Len(t.rows) : \A j \in 1..Len(t.columns) :
        /\ ~IsNull(t.rows[i].cells[j])
        /\ IsRating(t.columns[j]) => t.rows[i].cells[j].t = "num"

\* C2: cleaning a table with no null cell and numeric rating columns
\* returns an equal table (same rows, order and cells) and drops no row.
C2_CleanIsNoOp ==
    (Cleaned /\ AlreadyClean(df)) => (cleaned_df = df /\ dropped_rows = 0)

\* An already clean table of several rows with an identifier, a rating and
\* a free column has been cleaned.
C2_Witness ==
    /\ pc = "cleaned"
    /\ AlreadyClean(df)
    /\ Len(df.rows) > 1
    /\ \E j \in 1..Len(df.columns) : IsRating(df.columns[j])
    /\ \E j \in 1..Len(df.columns) : ~Essential(df.columns[j])
    /\ cleaned_df = df

\* The index labels of the rows of a table, in order.
Labels(rows) == [i \in 1..Len(rows) |-> rows[i].idx]

CompleteRows(t) ==
    LET complete(row) == Complete(t, row) IN SelectSeq(t.rows, complete)

\* C3: the rows clean_ratings keeps are exactly the raw rows with no null
\* in any essential column, in their original order (their other cells
\* untouched), and the dropped-row count is the raw count minus the kept
\* count; a row missing one essential value is dropped.
C3_KeptRows ==
    Cleaned =>
        /\ Labels(cleaned_df.rows) = Labels(CompleteRows(df))
        /\ \A k \in 1..Len(cleaned_df.rows) : \A j \in 1..Len(df.columns) :
              ~IsRating(df.columns[j]) =>
                  cleaned_df.rows[k].cells[j] = CompleteRows(df)[k].cells[j]
        /\ dropped_rows = Len(df.rows) - Len(cleaned_df.rows)

\* The number of essential cells of the row that are null.
MissingEssential(t, row) ==
    Cardinality({j \in 1..Len(t.columns) :
                    Essential(t.columns[j]) /\ IsNull(row.cells[j])})

\* A row missing exactly one essential value was dropped from between two
\* kept rows, one of them null in a column that is not essential.
C3_Witness ==
    /\ pc = "cleaned"
    /\ Len(df.rows) > 2
    /\ dropped_rows = 1
    /\ MissingEssential(df, df.rows[2]) = 1
    /\ \E j \in 1..Len(df.columns) : IsNull(df.rows[1].cells[j])
    /\ Labels(cleaned_df.rows) = <<df.rows[1].idx, df.rows[3].idx>>

---------------------------------------------------------------------------
(* Properties of the analysis functions.                                   *)

Returns(name) == pc = name /\ result.kind = "return"

\* C4: no core function fails fatally: on every cleaned table
\* compute_judge_statistics, identify_harsh_lenient_judges and
\* generate_judge_profiles return a result or None and never raise.
C4_NeverRaises ==
    pc \in {"compute_judge_statistics", "identify_harsh_lenient_judges",
            "generate_judge_profiles"}
        => result.kind \in {"return", "none"}

\* The correlation is a number between -1 and 1.
InUnitRange(c) == ~c.nan /\ FLe(c.sq, Flt(1, 1))

\* C5: every correlation find_judge_agreements_disagreements reports is a
\* number in [-1, 1], also when one judge of the pair gave every common
\* beer the same mean rating.
C5_CorrelationInRange ==
    Returns("find_judge_agreements_disagreements") =>
        \A i \in 1..Len(result.value) : InUnitRange(result.value[i].correlation)

\* The judge has a non-null rating in some row of the beer.
Rated(t, judge, beer) ==
    \E i \in 1..Len(t.rows) : \E j \in 1..Len(t.columns) :
        /\ CellEq(Cell(t, t.rows[i], judge_col), judge)
        /\ CellEq(Cell(t, t.rows[i], beer_col), beer)
        /\ IsRating(t.columns[j])
        /\ ~IsNull(t.rows[i].cells[j])

\* The beers that give a (judge1 mean, judge2 mean) data point.
SharedBeers(t, judge1, judge2) ==
    {b \in SeqToSet(Column(t, beer_col)) :
        Rated(t, judge1, b) /\ Rated(t, judge2, b)}

\* C6: a pair of judges is in the result of
\* find_judge_agreements_disagreements only if at least two beers were
\* rated (non-null) by both.
C6_PairsNeedTwoPoints ==
    Returns("find_judge_agreements_disagreements") =>
        \A i \in 1..Len(result.value) :
            Cardinality(SharedBeers(cleaned_df, result.value[i].judge1,
                                    result.value[i].judge2)) >= 2

\* A pair with two common beers is reported.
C6_Witness ==
    /\ Returns("find_judge_agreements_disagreements")
    /\ Len(result.value) = 1
    /\ result.value[1].common_beers = 2
    /\ Cardinality(SharedBeers(cleaned_df, result.value[1].judge1,
                               result.value[1].judge2)) = 2

\* The (row, column) places of the non-null rating cells of the rows whose
\* cell in column `col` is `value`.
RatingPlaces(t, col, value) ==
    {<<i, j>> \in (1..Len(t.rows)) \X (1..Len(t.columns)) :
        /\ CellEq(Cell(t, t.rows[i], col), value)
        /\ IsRating(t.columns[j])
        /\ ~IsNull(t.rows[i].cells[j])}

RECURSIVE SumPlaces(_, _)
SumPlaces(t, places) ==
    IF places = {} THEN 0
    ELSE LET p == CHOOSE q \in places : TRUE
         IN  t.rows[p[1]].cells[p[2]].n + SumPlaces(t, places \ {p})

\* The arithmetic mean of the cells at the places; NaN when there is none.
MeanOfPlaces(t, places) ==
    IF places = {} THEN FNaN
    ELSE Flt(SumPlaces(t, places), Cardinality(places))

\* The judges of the table: the values of its first judge column.
JudgesOf(t) ==
    {c \in SeqToSet(Column(t, FirstMatch(t.columns, JudgeNames))) : ~IsNull(c)}

MeanOfJudge(t, judge) ==
    MeanOfPlaces(t, RatingPlaces(t, FirstMatch(t.columns, JudgeNames), judge))

\* The unweighted mean of the per-judge means.
OverallAverage(t) ==
    LET judges == SetToSeq(JudgesOf(t))
    IN  f_mean([i \in 1..Len(judges) |-> MeanOfJudge(t, judges[i])])

Half == Flt(1, 2)

\* C7: identify_harsh_lenient_judges partitions the judges around the
\* unweighted mean of the per-judge means: harsh iff mean < average - 0.5,
\* lenient iff mean > average + 0.5, in neither list iff within the band;
\* no judge is in both; harsh_judges ascends by mean, lenient_judges
\* descends.
C7_HarshLenientPartition ==
    Returns("identify_harsh_lenient_judges") =>
        LET hl == result.value
            t == cleaned_df
            avg == OverallAverage(t)
            low == FSub(avg, Half)
            high == FAdd(avg, Half)
        IN  /\ hl.overall_average = avg
            /\ \A j \in JudgesOf(t) :
                  /\ Listed(j, hl.harsh_judges) <=> FLt(MeanOfJudge(t, j), low)
                  /\ Listed(j, hl.lenient_judges) <=> FGt(MeanOfJudge(t, j), high)
                  /\ (~Listed(j, hl.harsh_judges) /\ ~Listed(j, hl.lenient_judges))
                        <=> (FGe(MeanOfJudge(t, j), low) /\ FLe(MeanOfJudge(t, j), high))
                  /\ ~(Listed(j, hl.harsh_judges) /\ Listed(j, hl.lenient_judges))
            /\ \A list \in {hl.harsh_judges, hl.lenient_judges} :
                  /\ \A i \in 1..Len(list) :
                        /\ list[i].judge \in JudgesOf(t)
                        /\ list[i].mean_rating = MeanOfJudge(t, list[i].judge)
                  /\ \A i, k \in 1..Len(list) : i # k => list[i].judge # list[k].judge
            /\ \A i \in 1..(Len(hl.harsh_judges) - 1) :
                  FLe(hl.harsh_judges[i].mean_rating,
                      hl.harsh_judges[i + 1].mean_rating)
            /\ \A i \in 1..(Len(hl.lenient_judges) - 1) :
                  FGe(hl.lenient_judges[i].mean_rating,
                      hl.lenient_judges[i + 1].mean_rating)

\* The row in which the judge first appears.
FirstRowOf(t, judge) ==
    CHOOSE i \in 1..Len(t.rows) :
        /\ Cell(t, t.rows[i], judge_col) = judge
        /\ \A k \in 1..(i - 1) : Cell(t, t.rows[k], judge_col) # judge

\* Two harsh judges of different means, listed in the reverse of the order
\* the table names them in (the sort has reordered them), and one lenient
\* judge.
C7_Witness ==
    /\ Returns("identify_harsh_lenient_judges")
    /\ Len(result.value.harsh_judges) = 2
    /\ Len(result.value.lenient_judges) = 1
    /\ FLt(result.value.harsh_judges[1].mean_rating,
           result.value.harsh_judges[2].mean_rating)
    /\ FirstRowOf(cleaned_df, result.value.harsh_judges[2].judge)
          < FirstRowOf(cleaned_df, result.value.harsh_judges[1].judge)

\* The beers of the table: the values of its first beer column.
BeersOf(t) ==
    {c \in SeqToSet(Column(t, FirstMatch(t.columns, BeerNames))) : ~IsNull(c)}

\* The non-null cells of rating column j in the rows of the beer.
BeerPlaces(t, beer, j) ==
    {p \in RatingPlaces(t, FirstMatch(t.columns, BeerNames), beer) : p[2] = j}

\* A beer's overall scalar: the equal-weighted mean of its per-column
\* means, over the rating columns it has a value in; NaN when it has none.
OverallScalar(t, beer) ==
    LET cols == SetToSeq({j \in 1..Len(t.columns) : BeerPlaces(t, beer, j) # {}})
    IN  f_mean([k \in 1..Len(cols) |-> MeanOfPlaces(t, BeerPlaces(t, beer, cols[k]))])

BestWorstNamed(t, r) ==
    /\ r.best_beer.name \in BeersOf(t)
    /\ r.worst_beer.name \in BeersOf(t)
    /\ r.best_beer.average_rating = OverallScalar(t, r.best_beer.name)
    /\ r.worst_beer.average_rating = OverallScalar(t, r.worst_beer.name)
    /\ Cardinality(BeersOf(t)) = 1 => r.best_beer.name = r.worst_beer.name

PresentRows(t, col) ==
    {i \in 1..Len(t.rows) : ~IsNull(Cell(t, t.rows[i], col))}

\* C9: for every rating column compute_basic_statistics reports count =
\* the number of non-null values of the column and mean = the arithmetic
\* mean of exactly those values.
C9_CountAndMean ==
    Returns("compute_basic_statistics") =>
        /\ {result.value[i].column : i \in 1..Len(result.value)}
              = {c \in SeqToSet(cleaned_df.columns) : IsRating(c)}
        /\ \A i \in 1..Len(result.value) :
              LET col == result.value[i].column
                  places == PresentRows(cleaned_df, col)
                               \X {ColIndex(cleaned_df.columns, col)}
              IN  /\ result.value[i].count = Cardinality(places)
                  /\ places # {} =>
                        result.value[i].mean = MeanOfPlaces(cleaned_df, places)

\* A rating column with a null and several different values.
C9_Witness ==
    /\ Returns("compute_basic_statistics")
    /\ result.value[1].count = 2
    /\ Len(cleaned_df.rows) = 3
    /\ result.value[1].mean = Flt(2, 1)
    /\ FLt(result.value[1].min, result.value[1].max)

\* C10: the functions that need one judge column and one beer column use
\* the first column matching the judge keywords and the first matching the
\* beer keywords: analyze_judge_preferences and
\* find_judge_agreements_disagreements pick the judge column of
\* compute_judge_statistics and the beer column of compute_beer_averages.
C10_FirstMatchingColumn ==
    pc \in {"analyze_judge_preferences", "find_judge_agreements_disagreements"}
        => /\ judge_col = first_judge_col(cleaned_df)
           /\ beer_col = first_beer_col(cleaned_df)
           /\ judge_col = FirstMatch(cleaned_df.columns, JudgeNames)
           /\ beer_col = FirstMatch(cleaned_df.columns, BeerNames)

---------------------------------------------------------------------------
(* Properties of the judge preferences, the profiles and the rankings.     *)

\* The places of the non-null rating cells of the rows of the judge for
\* the beer.
PairPlaces(t, judge, beer) ==
    {p \in RatingPlaces(t, FirstMatch(t.columns, JudgeNames), judge) :
        CellEq(Cell(t, t.rows[p[1]], FirstMatch(t.columns, BeerNames)), beer)}

\* The beers the judge has a non-null rating for.
BeersRatedBy(t, judge) ==
    {b \in BeersOf(t) : PairPlaces(t, judge, b) # {}}

\* The entry lists every beer the judge rated, once, each with the mean of
\* all the judge's non-null ratings of it.
AllRatingsAreMeans(t, e) ==
    /\ {e.all_ratings[k].beer : k \in 1..Len(e.all_ratings)}
           = BeersRatedBy(t, e.judge)
    /\ Len(e.all_ratings) = Cardinality(BeersRatedBy(t, e.judge))
    /\ \A k \in 1..Len(e.all_ratings) :
          e.all_ratings[k].rating
              = MeanOfPlaces(t, PairPlaces(t, e.judge, e.all_ratings[k].beer))

\* The favorite is an entry of the greatest mean, the least favorite one of
\* the smallest.
FavoriteIsExtreme(e) ==
    /\ \E k \in 1..Len(e.all_ratings) : e.all_ratings[k] = e.favorite_beer
    /\ \E k \in 1..Len(e.all_ratings) : e.all_ratings[k] = e.least_favorite_beer
    /\ \A k \in 1..Len(e.all_ratings) :
          /\ FGe(e.favorite_beer.rating, e.all_ratings[k].rating)
          /\ FLe(e.least_favorite_beer.rating, e.all_ratings[k].rating)

\* C11: for every judge and every beer the judge rated,
\* analyze_judge_preferences records in all_ratings the mean of all the
\* judge's non-null ratings of the beer, over every row of the pair, also
\* when the judge has several rows for the beer; favorite_beer has the
\* maximum mean and least_favorite_beer the minimum.
C11_PreferencesAreMeans ==
    Returns("analyze_judge_preferences") =>
        \A i \in 1..Len(result.value) :
            /\ AllRatingsAreMeans(cleaned_df, result.value[i])
            /\ FavoriteIsExtreme(result.value[i])

\* The judges of the profiles, in order.
ProfileJudges(profiles) == [i \in 1..Len(profiles) |-> profiles[i].judge]

\* The judges with at least two non-null rating values.
JudgesWithTwoRatings(t) ==
    {j \in JudgesOf(t) :
        Cardinality(RatingPlaces(t, FirstMatch(t.columns, JudgeNames), j)) > 1}

\* The style the harsh and lenient lists give the judge.
StyleOf(judge, hl) ==
    IF \E k \in 1..Len(hl.harsh_judges) : hl.harsh_judges[k].judge = judge
    THEN "Harsh"
    ELSE IF \E k \in 1..Len(hl.lenient_judges) :
                hl.lenient_judges[k].judge = judge
    THEN "Lenient"
    ELSE "Moderate"

C13_BestFirstWorstLast ==
    Returns("find_best_worst_beers") =>
        /\ result.value.best_beer = result.value.all_averages[1]
        /\ result.value.worst_beer
               = result.value.all_averages[Len(result.value.all_averages)]

\* The entry of the judge in the result of compute_judge_statistics.
StatisticsOf(judge_stats, judge) ==
    judge_stats[CHOOSE k \in 1..Len(judge_stats) :
                    judge_stats[k].judge = judge]

\* C14: analyze_judge_consistency and compute_judge_statistics agree on
\* the flattened ratings of each judge: the judges of the consistency
\* result are exactly the judges with at least 2 non-null rating values,
\* and avg_rating, num_ratings, rating_range and std_dev of each equal the
\* judge's mean_rating, num_ratings, rating_range and std_rating in the
\* result compute_judge_statistics returns on the same table.
C14_ConsistencyAgreesWithStatistics ==
    Returns("analyze_judge_consistency") =>
        LET judge_stats == compute_judge_statistics(cleaned_df)
        IN  /\ SeqToSet(ProfileJudges(result.value))
                   = JudgesWithTwoRatings(cleaned_df)
            /\ Len(result.value) = Cardinality(JudgesWithTwoRatings(cleaned_df))
            /\ \A i \in 1..Len(result.value) :
                  /\ result.value[i].num_ratings
                         = Cardinality(RatingPlaces(cleaned_df,
                               FirstMatch(cleaned_df.columns, JudgeNames),
                               result.value[i].judge))
                  /\ result.value[i].avg_rating
                         = MeanOfJudge(cleaned_df, result.value[i].judge)
            /\ judge_stats.kind = "return" =>
                  \A i \in 1..Len(result.value) :
                      LET c == result.value[i]
                          st == StatisticsOf(judge_stats.value, c.judge)
                      IN  /\ c.avg_rating = st.mean_rating
                          /\ c.num_ratings = st.num_ratings
                          /\ c.rating_range = st.rating_range
                          /\ c.std_dev = st.std_rating

\* A judge with three rows and two rating values has an entry of nonzero
\* range, another judge with one value has none, and
\* compute_judge_statistics returns both judges.
C14_Witness ==
    /\ Returns("analyze_judge_consistency")
    /\ compute_judge_statistics(cleaned_df).kind = "return"
    /\ Len(compute_judge_statistics(cleaned_df).value) = 2
    /\ Len(result.value) = 1
    /\ result.value[1].num_ratings = 2
    /\ result.value[1].rating_range > 0
    /\ Len(RowsWhere(cleaned_df, "Judge", result.value[1].judge)) = 3

---------------------------------------------------------------------------
(* The identifier columns of the cleaned table.                            *)

\* The raw row the cleaned row comes from: index labels count from 0.
RawRowOf(kept) == df.rows[kept.idx + 1]

\* C15, as claimed: in every table clean_ratings returns, every row has a
\* non-null value in every judge and beer identifier column, also in a
\* column whose name matches an identifier keyword and a rating keyword.
C15_IdentifiersNonNull ==
    Cleaned =>
        \A k \in 1..Len(cleaned_df.rows) :
            \A j \in 1..Len(cleaned_df.columns) :
                (IsJudge(cleaned_df.columns[j]) \/ IsBeer(cleaned_df.columns[j]))
                    => ~IsNull(cleaned_df.rows[k].cells[j])

\* C15, amended: in every table clean_ratings returns, every row has a
\* non-null value in every judge and beer identifier column that is not
\* also a rating column; in an identifier column that is also a rating
\* column a cell is null exactly where the raw cell held non-numeric text.
C15_PureIdentifiersNonNull ==
    Cleaned =>
        \A k \in 1..Len(cleaned_df.rows) :
            \A j \in 1..Len(cleaned_df.columns) :
                (IsJudge(cleaned_df.columns[j]) \/ IsBeer(cleaned_df.columns[j]))
                    => IF IsRating(cleaned_df.columns[j])
                       THEN IsNull(cleaned_df.rows[k].cells[j])
                               <=> NonNumeric(RawRowOf(cleaned_df.rows[k]).cells[j])
                       ELSE ~IsNull(cleaned_df.rows[k].cells[j])

\* A kept row with a judge column and a "Beer Score" column whose text was
\* coerced to null.
C15_Witness ==
    /\ pc = "cleaned"
    /\ Len(cleaned_df.rows) = 1
    /\ \E j \in 1..Len(cleaned_df.columns) :
          /\ cleaned_df.columns[j] = "Judge"
          /\ ~IsNull(cleaned_df.rows[1].cells[j])
    /\ \E j \in 1..Len(cleaned_df.columns) :
          /\ cleaned_df.columns[j] = "Beer Score"
          /\ IsNull(cleaned_df.rows[1].cells[j])

===========================================================================
